---------------------------- MODULE Spec2Model ----------------------------
(***************************************************************************)
(* Model of dictionary_definition.py: the Apple dictionary container       *)
(* reader (DictionaryDefinition.gen_from_apple_dictionary), the three      *)
(* quantified query helpers over a markup tree, and the entry grammar      *)
(* parser (AppleDictParser).                                               *)
(*                                                                         *)
(* Python values are represented as follows.                               *)
(*   str            a sequence of one-character strings                    *)
(*   None           the sequence None (one token that is no character)     *)
(*   empty ResultSet  the sequence EmptyResultSet                          *)
(*   bs4 tree       a record [kind, name, hasClass, cls, pr, s, kids]      *)
(*   bs4 node       the path to it from the root of its tree (a sequence   *)
(*                  of child indexes), so that its ancestors are known;    *)
(*                  NoNode stands for None, NoMatch for an empty ResultSet *)
(*   a call         Ok(value), or Raise(kind) when an exception leaves it  *)
(***************************************************************************)
EXTENDS Integers, Sequences, FiniteSets, TLC

VARIABLES
    f,       \* reader: the byte source, [L, chunks]
    pos,     \* reader: f.tell()
    limit,   \* reader: the local variable limit
    pc,      \* reader: position of the generator
    buf,     \* reader: matches of the current chunk still to be visited
    out,     \* reader: the records yielded so far
    err,     \* reader: the exception that ended the generator, "" if none
    doc,     \* parser: the markup tree handed to the call
    arg,     \* parser: the other arguments of the call
    call,    \* parser: the function called, "" before the call
    ret      \* parser: what the call returned or raised

vars == <<f, pos, limit, pc, buf, out, err, doc, arg, call, ret>>
readerVars == <<f, pos, limit, pc, buf, out, err>>
parserVars == <<doc, arg, call, ret>>

-----------------------------------------------------------------------------
(* Sequences *)

RECURSIVE Flatten(_)
Flatten(ss) == IF ss = <<>> THEN <<>> ELSE Head(ss) \o Flatten(Tail(ss))

Last(s) == s[Len(s)]
Front(s) == SubSeq(s, 1, Len(s) - 1)
Range(s) == {s[i] : i \in DOMAIN s}

\* All sequences over S of length at most n.
RECURSIVE SeqsUpTo(_, _)
SeqsUpTo(S, n) ==
    IF n = 0 THEN {<<>>}
    ELSE {<<>>} \cup {<<x>> \o s : x \in S, s \in SeqsUpTo(S, n - 1)}

-----------------------------------------------------------------------------
(* Python values *)

None == <<"<None>">>
EmptyResultSet == <<"<ResultSet []>">>

Ok(v) == [ok |-> TRUE, val |-> v]
Raise(e) == [ok |-> FALSE, err |-> e]

\* x, then rest applied to its value unless x raised.
Bind(x, rest(_)) == IF x.ok THEN rest(x.val) ELSE x

\* str.strip(): the characters it removes.
Whitespace == {" "}

RECURSIVE lstrip(_, _)
lstrip(s, chars) ==
    IF s # <<>> /\ Head(s) \in chars THEN lstrip(Tail(s), chars) ELSE s

RECURSIVE rstrip(_, _)
rstrip(s, chars) ==
    IF s # <<>> /\ Last(s) \in chars THEN rstrip(Front(s), chars) ELSE s

\* str.strip(chars)
strip(s, chars) == rstrip(lstrip(s, chars), chars)

-----------------------------------------------------------------------------
(* bs4: the markup tree.  A node is referred to by its path from the root   *)
(* of the tree it was parsed into (the child indexes on the way down), so   *)
(* a node knows its ancestors as a bs4 node does.                           *)

NoAttr == "<absent>"

Text(s) ==
    [kind |-> "text", name |-> "", hasClass |-> FALSE, cls |-> {}, pr |-> NoAttr,
     s |-> s, kids |-> <<>>]

\* A tag with a class attribute.
Tag(name, cls, kids) ==
    [kind |-> "tag", name |-> name, hasClass |-> TRUE, cls |-> cls, pr |-> NoAttr,
     s |-> <<>>, kids |-> kids]

\* A tag with no class attribute.
Bare(name, kids) ==
    [kind |-> "tag", name |-> name, hasClass |-> FALSE, cls |-> {}, pr |-> NoAttr,
     s |-> <<>>, kids |-> kids]

Span(c, kids) == Tag("span", {c}, kids)

\* The BeautifulSoup object: the root of a parsed fragment.
Soup(kids) == Bare("[document]", kids)

\* In the place of a node: the empty ResultSet, and None.
NoMatch == <<0>>
NoNode == <<-1>>
Found(p) == p \notin {NoMatch, NoNode}

RECURSIVE At(_, _)
At(root, p) == IF p = <<>> THEN root ELSE At(root.kids[Head(p)], Tail(p))

\* Tag.children / Tag.contents
children(root, p) == [i \in 1..Len(At(root, p).kids) |-> Append(p, i)]

\* Tag.descendants: document order.
RECURSIVE descendants(_, _)
descendants(root, p) ==
    Flatten([i \in 1..Len(At(root, p).kids) |->
                <<Append(p, i)>> \o descendants(root, Append(p, i))])

AnyClass == "<any>"

\* Whether find_all(name, class_=c) selects node n.
Matches(n, name, c) ==
    /\ n.kind = "tag"
    /\ n.name = name
    /\ c # AnyClass => (n.hasClass /\ c \in n.cls)

\* Tag.find_all(name, class_=c, recursive=...), also Tag.__call__ and
\* Tag.findChildren.
find_all(root, p, name, c, recursive) ==
    SelectSeq(IF recursive THEN descendants(root, p) ELSE children(root, p),
              LAMBDA q : Matches(At(root, q), name, c))

\* Tag.find(name, class_=c, recursive=...): the first match, or None.
First(t) == IF t = <<>> THEN NoNode ELSE t[1]
find(root, p, name, c, recursive) == First(find_all(root, p, name, c, recursive))

\* Tag.find_parents(name, class_=c): the matching ancestors.
find_parents(root, p, name, c) ==
    {q \in {SubSeq(p, 1, k) : k \in 0..(Len(p) - 1)} : Matches(At(root, q), name, c)}

\* Tag.get_text() of a node
RECURSIVE TextOf(_)
TextOf(n) ==
    IF n.kind = "text" THEN n.s
    ELSE Flatten([i \in 1..Len(n.kids) |-> TextOf(n.kids[i])])

get_text(root, p) == TextOf(At(root, p))

\* get_text().strip()
stripped_text(root, p) == strip(get_text(root, p), Whitespace)

\* c["class"] of a child c: the class list of a tag that has one, KeyError for
\* a tag that has none, TypeError for a NavigableString (a str indexed by a str).
ClassAttr(c) ==
    IF c.kind = "text" THEN Raise("TypeError")
    ELSE IF ~c.hasClass THEN Raise("KeyError")
    ELSE Ok(c.cls)

ClassOf(root, p) == ClassAttr(At(root, p))

-----------------------------------------------------------------------------
(* Helpers for beautiful soup: each is its cardinality check applied to the  *)
(* result t of find_all.                                                     *)

AtMostOne(t) ==
    IF t = <<>> THEN Ok(NoMatch)
    ELSE IF Len(t) > 1 THEN Raise("InvalidParseAssumptionError")
    ELSE Ok(t[1])

find_at_most_one(root, p, name, c, recursive) ==
    AtMostOne(find_all(root, p, name, c, recursive))

ExactlyOne(t) ==
    IF t = <<>> THEN Raise("InvalidParseAssumptionError")
    ELSE IF Len(t) > 1 THEN Raise("InvalidParseAssumptionError")
    ELSE Ok(t[1])

find_exactly_one(root, p, name, c, recursive) ==
    ExactlyOne(find_all(root, p, name, c, recursive))

\* The name raised on no match, InvalidParseAssumption, is defined nowhere:
\* evaluating it is a NameError.
AtLeastOne(t) ==
    IF t = <<>> THEN Raise("NameError")
    ELSE Ok(t)

find_at_least_one(root, p, name, c, recursive) ==
    AtLeastOne(find_all(root, p, name, c, recursive))

-----------------------------------------------------------------------------
(* The dataclasses *)

Pronounciation(text, type) == [text |-> text, type |-> type]

Definition(pos_modifier, definition, examples, topic, date) ==
    [class |-> "Definition", pos_modifier |-> pos_modifier, definition |-> definition,
     examples |-> examples, topic |-> topic, date |-> date]

ReferenceDefinition(pos_modifier, reference) ==
    [class |-> "ReferenceDefinition", pos_modifier |-> pos_modifier,
     reference |-> reference]

\* A Python list held where a dataclass instance is expected.
PyList(items) == [class |-> "list", items |-> items]

Sense(pos_, definitions) == [class |-> "Sense", pos |-> pos_, definitions |-> definitions]

Entry(word, variant, senses, pronounciations, phrases, origin, derivatives) ==
    [class |-> "Entry", word |-> word, variant |-> variant, senses |-> senses,
     pronounciations |-> pronounciations, phrases |-> phrases, origin |-> origin,
     derivatives |-> derivatives]

-----------------------------------------------------------------------------
(* Python built-ins used by the parser *)

\* sep.join(parts)
RECURSIVE join(_, _)
join(sep, parts) ==
    IF parts = <<>> THEN <<>>
    ELSE IF Len(parts) = 1 THEN parts[1]
    ELSE parts[1] \o sep \o join(sep, Tail(parts))

Digits == <<"0", "1", "2", "3", "4", "5", "6", "7", "8", "9">>

DigitValue(c) == (CHOOSE i \in 1..Len(Digits) : Digits[i] = c) - 1

RECURSIVE Decimal(_)
Decimal(s) ==
    IF s = <<>> THEN 0 ELSE Len(Digits) * Decimal(Front(s)) + DigitValue(Last(s))

IntOfStripped(t) ==
    IF t # <<>> /\ \A i \in 1..Len(t) : t[i] \in Range(Digits)
    THEN Ok(Decimal(t))
    ELSE Raise("ValueError")

\* int(s): the number a string of digits (blanks around it allowed) denotes,
\* ValueError for any other string.
int(s) == IntOfStripped(strip(s, Whitespace))

\* x or y, for optional strings
Or(x, y) == IF x \notin {None, EmptyResultSet, <<>>} THEN x ELSE y

\* The text of an optional node: other when there is no node.
OptionalText(root, p, other) == IF Found(p) THEN stripped_text(root, p) ELSE other

-----------------------------------------------------------------------------
(* AppleDictParser *)

\* The list comprehension of parse_pronounciations: p["d:pr"] is a KeyError
\* for a span without the attribute.
RECURSIVE PronounciationList(_, _)
PronounciationList(root, ps) ==
    IF ps = <<>> THEN Ok(<<>>)
    ELSE IF At(root, Head(ps)).pr = NoAttr THEN Raise("KeyError")
    ELSE Bind(PronounciationList(root, Tail(ps)), LAMBDA rest :
         Ok(<<Pronounciation(get_text(root, Head(ps)), At(root, Head(ps)).pr)>> \o rest))

\* parse_pronounciations from the enclosing span on.
Enclosed(root, pronounciation_enclose) ==
    IF \/ ~Found(pronounciation_enclose)
       \/ stripped_text(root, pronounciation_enclose) = <<>>
    THEN Ok(None)
    ELSE IF find_all(root, pronounciation_enclose, "span", "ph", TRUE) = <<>>
    THEN Raise("InvalidParseAssumptionError")
    ELSE PronounciationList(root, find_all(root, pronounciation_enclose, "span", "ph", TRUE))

parse_pronounciations(root, parsed_entry) ==
    Bind(find_at_most_one(root, parsed_entry, "span", "prx", TRUE), LAMBDA prx :
    Bind(IF Found(prx) THEN Ok(prx)
         ELSE find_at_most_one(root, parsed_entry, "span", "pr", TRUE),
         LAMBDA pronounciation_enclose :
    Enclosed(root, pronounciation_enclose)))

\* ExampleText, taking one colon from the end and none from the start.
ExampleTextLessOneColon(s) ==
    IF strip(s, Whitespace) # <<>> /\ Last(strip(s, Whitespace)) = ":"
    THEN Front(strip(s, Whitespace))
    ELSE strip(s, Whitespace)

\* What the example list comprehension makes of one example span's text.
ExampleText(s) == strip(strip(strip(s, Whitespace), {":"}), Whitespace)

Examples(root, example_spans) ==
    [i \in 1..Len(example_spans) |-> ExampleText(get_text(root, example_spans[i]))]

\* The sense-entry that holds one definition-text span.
DefinitionEntry(root, entry_span, definition_span, global_pos_modifier) ==
    Bind(find_at_most_one(root, entry_span, "span", "lg", TRUE), LAMBDA topic_span :
    Bind(find_at_most_one(root, definition_span, "span", "dg", TRUE), LAMBDA date_spans :
    Ok(Definition(
           Or(OptionalText(root, find(root, entry_span, "span", "gg", FALSE), None),
              global_pos_modifier),
           stripped_text(root, definition_span),
           Examples(root, find_all(root, entry_span, "span", "ex", TRUE)),
           OptionalText(root, topic_span, EmptyResultSet),
           OptionalText(root, date_spans, None)))))

\* The sense-entry that holds no definition-text span.
ReferenceEntry(root, entry_span, global_pos_modifier) ==
    Bind(find_exactly_one(root, entry_span, "span", "xrg", TRUE), LAMBDA xrg :
    Bind(find_exactly_one(root, xrg, "span", "xr", TRUE), LAMBDA referenced_term :
    Ok(ReferenceDefinition(global_pos_modifier, stripped_text(root, referenced_term)))))

\* One pass of the loop over entry_spans in parse_sense_definitions.
SenseEntryOf(root, entry_span, definition_spans, global_pos_modifier) ==
    IF Len(definition_spans) > 1 THEN Raise("InvalidParseAssumptionError")
    ELSE IF definition_spans # <<>>
    THEN DefinitionEntry(root, entry_span, definition_spans[1], global_pos_modifier)
    ELSE ReferenceEntry(root, entry_span, global_pos_modifier)

SenseEntry(root, entry_span, global_pos_modifier) ==
    SenseEntryOf(root, entry_span, find_all(root, entry_span, "span", "df", TRUE),
                 global_pos_modifier)

\* The loop over entry_spans: the first exception ends it.
RECURSIVE SenseEntries(_, _, _)
SenseEntries(root, entry_spans, global_pos_modifier) ==
    IF entry_spans = <<>> THEN Ok(<<>>)
    ELSE Bind(SenseEntry(root, Head(entry_spans), global_pos_modifier), LAMBDA d :
         Bind(SenseEntries(root, Tail(entry_spans), global_pos_modifier), LAMBDA rest :
         Ok(<<d>> \o rest)))

\* The spans of class gg that no sense-entry span encloses.
GlobalModifierSpans(root, parsed_entry) ==
    SelectSeq(find_all(root, parsed_entry, "span", "gg", TRUE),
              LAMBDA e : find_parents(root, e, "span", "msDict") = {})

FirstText(root, spans) == IF spans # <<>> THEN stripped_text(root, spans[1]) ELSE None

parse_sense_definitions(root, parsed_entry) ==
    Bind(find_at_least_one(root, parsed_entry, "span", "msDict", TRUE), LAMBDA entry_spans :
    SenseEntries(root, entry_spans,
                 FirstText(root, GlobalModifierSpans(root, parsed_entry))))

\* The loop over parsed_entry.children in parse_sense, taken when the sense
\* holds a span of class se2: every parse_sense_definitions result is appended
\* as it is, a list.
RECURSIVE SubSenses(_, _)
SubSenses(root, cs) ==
    IF cs = <<>> THEN Ok(<<>>)
    ELSE Bind(ClassOf(root, Head(cs)), LAMBDA class :
         IF class \cap {"tg_pos", "posg", "x_xdh"} # {} THEN SubSenses(root, Tail(cs))
         ELSE IF stripped_text(root, Head(cs)) = <<>> THEN SubSenses(root, Tail(cs))
         ELSE IF "se2" \in class
         THEN Bind(parse_sense_definitions(root, Head(cs)), LAMBDA d :
              Bind(SubSenses(root, Tail(cs)), LAMBDA rest :
              Ok(<<PyList(d)>> \o rest)))
         ELSE Raise("InvalidParseAssumptionError"))

\* The part of speech of a sense, from its spans of class tg_pos.
PartOfSpeech(root, parsed_entry, pos_spans) ==
    IF Len(pos_spans) > 1
    THEN Ok(join(<<" ">>, [i \in 1..Len(pos_spans) |-> stripped_text(root, pos_spans[i])]))
    ELSE IF pos_spans = <<>>
    THEN Bind(find_at_most_one(root, parsed_entry, "span", "posg", TRUE), LAMBDA pos_span :
         Ok(OptionalText(root, pos_span, None)))
    ELSE Ok(stripped_text(root, pos_spans[1]))

parse_sense(root, parsed_entry) ==
    Bind(PartOfSpeech(root, parsed_entry,
                      find_all(root, parsed_entry, "span", "tg_pos", TRUE)),
         LAMBDA pos_ :
    Bind(IF find_all(root, parsed_entry, "span", "se2", TRUE) # <<>>
         THEN SubSenses(root, children(root, parsed_entry))
         ELSE parse_sense_definitions(root, parsed_entry),
         LAMBDA sense_definitions :
    IF sense_definitions = <<>> THEN Raise("InvalidParseAssumptionError")
    ELSE Ok(Sense(pos_, sense_definitions))))

parse_derivatives(root, parsed_entry) ==
    Bind(find_at_least_one(root, parsed_entry, "span", "l", TRUE), LAMBDA words :
    Ok([i \in 1..Len(words) |-> stripped_text(root, words[i])]))

ORIGIN == <<"O", "R", "I", "G", "I", "N">>

parse_origin(root, parsed_entry) ==
    Bind(find_exactly_one(root, parsed_entry, "span", "tg_etym", FALSE), LAMBDA etym_type :
    IF stripped_text(root, etym_type) # ORIGIN THEN Raise("InvalidParseAssumptionError")
    ELSE
    Bind(find_exactly_one(root, parsed_entry, "span", "x_xo1", TRUE), LAMBDA origin_span :
    Ok(stripped_text(root, origin_span))))

\* The loop over defn_entry.children in parse.
RECURSIVE Senses(_, _)
Senses(root, cs) ==
    IF cs = <<>> THEN Ok(<<>>)
    ELSE Bind(ClassOf(root, Head(cs)), LAMBDA class :
         IF "se1" \in class
         THEN Bind(parse_sense(root, Head(cs)), LAMBDA sense :
              Bind(Senses(root, Tail(cs)), LAMBDA rest :
              Ok(<<sense>> \o rest)))
         ELSE IF stripped_text(root, Head(cs)) # <<>>
         THEN Raise("InvalidParseAssumptionError")
         ELSE Senses(root, Tail(cs)))

\* The loop over entry.children in parse; sections holds phrases, origin and
\* derivatives as assigned so far.
RECURSIVE Subentries(_, _, _, _, _)
Subentries(root, cs, head_entry, defn_entry, sections) ==
    IF cs = <<>> THEN Ok(sections)
    ELSE IF \/ At(root, Head(cs)) = At(root, head_entry)
            \/ At(root, Head(cs)) = At(root, defn_entry)
    THEN Subentries(root, Tail(cs), head_entry, defn_entry, sections)
    ELSE Bind(ClassOf(root, Head(cs)), LAMBDA class :
         IF "t_phrases" \in class
         THEN Bind(parse_sense_definitions(root, Head(cs)), LAMBDA phrases :
              Subentries(root, Tail(cs), head_entry, defn_entry,
                         [sections EXCEPT !.phrases = phrases]))
         ELSE IF "t_derivatives" \in class
         THEN Bind(parse_derivatives(root, Head(cs)), LAMBDA derivatives :
              Subentries(root, Tail(cs), head_entry, defn_entry,
                         [sections EXCEPT !.derivatives = derivatives]))
         ELSE IF "etym" \in class
         THEN Bind(parse_origin(root, Head(cs)), LAMBDA origin :
              Subentries(root, Tail(cs), head_entry, defn_entry,
                         [sections EXCEPT !.origin = origin]))
         ELSE Raise("InvalidParseAssumptionError"))

\* The direct text runs among the contents of the headword span, each stripped.
RECURSIVE HeadWordRuns(_, _)
HeadWordRuns(root, contents) ==
    IF contents = <<>> THEN <<>>
    ELSE (IF At(root, Head(contents)).kind = "text"
          THEN <<strip(At(root, Head(contents)).s, Whitespace)>>
          ELSE <<>>)
         \o HeadWordRuns(root, Tail(contents))

parse(root, parsed_entry) ==
    Bind(find_exactly_one(root, parsed_entry, "d:entry", AnyClass, TRUE), LAMBDA entry :
    Bind(find_exactly_one(root, entry, "span", "hg", TRUE), LAMBDA head_entry :
    Bind(find_exactly_one(root, entry, "span", "sg", TRUE), LAMBDA defn_entry :
    Bind(find_exactly_one(root, head_entry, "span", "hw", TRUE), LAMBDA head_word_span :
    Bind(find_at_most_one(root, head_word_span, "span", "tg_hw", TRUE), LAMBDA variant_span :
    Bind(IF Found(variant_span) THEN int(get_text(root, variant_span)) ELSE Ok(None),
         LAMBDA variant :
    Bind(parse_pronounciations(root, head_entry), LAMBDA pronounciations :
    IF find_all(root, defn_entry, "span", "se1", TRUE) = <<>>
    THEN Raise("InvalidParseAssumptionError")
    ELSE
    Bind(Senses(root, children(root, defn_entry)), LAMBDA senses :
    Bind(Subentries(root, children(root, entry), head_entry, defn_entry,
                    [phrases |-> <<>>, origin |-> None, derivatives |-> <<>>]),
         LAMBDA sections :
    Ok(Entry(strip(join(<<" ">>, HeadWordRuns(root, children(root, head_word_span))),
                   Whitespace),
             variant, senses, pronounciations,
             sections.phrases, sections.origin, sections.derivatives)))))))))))

-----------------------------------------------------------------------------
(* The markup trees the parser is run on: a well-formed fragment, varied in  *)
(* one place at a time.                                                      *)

MaxSgKids == 2
MaxExtras == 2
MaxSe1Kids == 2
MaxMsKids == 2
MaxTextLen == 3
MaxExamples == 2

Chars == {"a", ":", " "}

Word(c) == Text(<<c>>)

Ph == [Span("ph", <<Word("p")>>) EXCEPT !.pr = "US"]
Hw == Span("hw", <<Word("w"), Span("tg_hw", <<Word("2")>>)>>)
Hg == Span("hg", <<Hw, Span("prx", <<Ph>>)>>)

Df(c) == Span("df", <<Word(c)>>)
Ex(s) == Span("ex", <<Text(s)>>)
MsDict(kids) == Span("msDict", kids)
Xrg == Span("xrg", <<Span("xr", <<Word("r")>>)>>)
Se1(kids) == Span("se1", kids)
Se2(kids) == Span("se2", kids)
Sg(kids) == Span("sg", kids)

Fragment(before, sgKids, after) ==
    Soup(<<Bare("d:entry", before \o <<Hg, Sg(sgKids)>> \o after)>>)

GoodSe1 == Se1(<<MsDict(<<Df("a")>>)>>)

\* Direct children of the definition-group.
SgKidShapes ==
    { GoodSe1,
      Se1(<<MsDict(<<Df(" ")>>)>>),
      Span("x", <<Word("a")>>),
      Span("x", <<Word(" ")>>),
      Span("x", <<Se1(<<>>)>>),
      Bare("span", <<Word("a")>>),
      Bare("span", <<Word(" ")>>),
      Word("a"),
      Word(" ") }

\* Direct children of the fragment root besides the two groups.
RootKidShapes ==
    { Span("t_phrases", <<MsDict(<<Df("b")>>)>>),
      Span("t_derivatives", <<Span("l", <<Word("d")>>)>>),
      Span("t_derivatives", <<>>),
      Span("etym", <<Span("tg_etym", <<Text(ORIGIN)>>), Span("x_xo1", <<Word("o")>>)>>),
      Span("etym", <<Span("tg_etym", <<Word("o")>>), Span("x_xo1", <<Word("o")>>)>>),
      Span("x", <<Word("a")>>),
      Span("x", <<>>),
      Bare("span", <<Word("a")>>),
      Word("a"),
      Word(" ") }

\* Direct children of a sense-group.
Se1KidShapes ==
    { Span("tg_pos", <<Word("n")>>),
      Span("posg", <<Word("v")>>),
      Se2(<<MsDict(<<Df("a")>>)>>),
      Se2(<<MsDict(<<Df("a")>>), MsDict(<<Df("b"), Ex(<<"a", ":">>)>>)>>),
      Se2(<<Span("gg", <<Word("g")>>), MsDict(<<Xrg>>)>>),
      Se2(<<Word("a")>>),
      MsDict(<<Df("b")>>),
      Span("x", <<Word(" ")>>),
      Span("x", <<Word("a")>>),
      Bare("span", <<Word("a")>>),
      Word(" ") }

\* Direct children of a sense-entry.
MsKidShapes ==
    { Df("a"),
      Span("df", <<Word("a"), Span("dg", <<Word("d")>>)>>),
      Ex(<<"a", ":">>),
      Span("lg", <<Word("t")>>),
      Span("gg", <<Word("g")>>),
      Xrg }

ExTexts == {<<"a">>, <<"b", ":">>, <<":", "b">>}

SgDocs == {Fragment(<<>>, k, <<>>) : k \in SeqsUpTo(SgKidShapes, MaxSgKids)}

RootDocs ==
    {Fragment(k[1], <<GoodSe1>>, k[2]) :
        k \in {x \in SeqsUpTo(RootKidShapes, MaxExtras) \X SeqsUpTo(RootKidShapes, MaxExtras) :
                  Len(x[1]) + Len(x[2]) <= MaxExtras}}

SenseDocs ==
    {Fragment(<<>>, <<Se1(k)>>, <<>>) : k \in SeqsUpTo(Se1KidShapes, MaxSe1Kids)}

DefDocs ==
    {Fragment(<<>>, <<Se1(<<MsDict(k)>>)>>, <<>>) : k \in SeqsUpTo(MsKidShapes, MaxMsKids)}

ExampleDocs ==
    {Fragment(<<>>, <<Se1(<<MsDict(<<Df("a")>> \o [i \in 1..Len(x) |-> Ex(x[i])])>>)>>, <<>>) :
        x \in {<<t>> : t \in SeqsUpTo(Chars, MaxTextLen)}
              \cup SeqsUpTo(ExTexts, MaxExamples)}

ParserDocs == SgDocs \cup RootDocs \cup SenseDocs \cup DefDocs \cup ExampleDocs

\* The tags of a tree, by path.
TagPaths(root) ==
    {q \in {<<>>} \cup Range(descendants(root, <<>>)) : At(root, q).kind = "tag"}

-----------------------------------------------------------------------------
(* The parser as a state machine: a tree is drawn, one function is called    *)
(* on it, and what it returned or raised is kept.                            *)

Pending == [ok |-> FALSE, err |-> ""]

ReaderIdle ==
    /\ f = [L |-> 0, chunks |-> <<>>]
    /\ pos = 0
    /\ limit = 0
    /\ pc = "idle"
    /\ buf = <<>>
    /\ out = <<>>
    /\ err = ""

InitParser ==
    /\ ReaderIdle
    /\ doc \in ParserDocs
    /\ arg = <<>>
    /\ call = ""
    /\ ret = Pending

CallParse ==
    /\ call = ""
    /\ call' = "parse"
    /\ arg' = <<>>
    /\ ret' = parse(doc, <<>>)
    /\ UNCHANGED <<doc, readerVars>>

CallParseSense ==
    /\ call = ""
    /\ \E p \in TagPaths(doc) :
          /\ call' = "parse_sense"
          /\ arg' = p
          /\ ret' = parse_sense(doc, p)
    /\ UNCHANGED <<doc, readerVars>>

CallParseSenseDefinitions ==
    /\ call = ""
    /\ \E p \in TagPaths(doc) :
          /\ call' = "parse_sense_definitions"
          /\ arg' = p
          /\ ret' = parse_sense_definitions(doc, p)
    /\ UNCHANGED <<doc, readerVars>>

NextParser == CallParse \/ CallParseSense \/ CallParseSenseDefinitions

SpecParser == InitParser /\ [][NextParser]_vars

-----------------------------------------------------------------------------
(* The query helpers as a state machine: a tree is drawn and one helper is   *)
(* called on one of its tags with one filter.                                *)

FindDocs == SgDocs \cup DefDocs

FindClasses == {"se1", "msDict", "df", "x"}

Filters(root) ==
    {[p |-> q, name |-> "span", c |-> k, recursive |-> r] :
        q \in TagPaths(root), k \in FindClasses, r \in BOOLEAN}

InitFind ==
    /\ ReaderIdle
    /\ doc \in FindDocs
    /\ arg = <<>>
    /\ call = ""
    /\ ret = Pending

CallFindAtMostOne ==
    /\ call = ""
    /\ \E a \in Filters(doc) :
          /\ call' = "find_at_most_one"
          /\ arg' = a
          /\ ret' = find_at_most_one(doc, a.p, a.name, a.c, a.recursive)
    /\ UNCHANGED <<doc, readerVars>>

CallFindExactlyOne ==
    /\ call = ""
    /\ \E a \in Filters(doc) :
          /\ call' = "find_exactly_one"
          /\ arg' = a
          /\ ret' = find_exactly_one(doc, a.p, a.name, a.c, a.recursive)
    /\ UNCHANGED <<doc, readerVars>>

CallFindAtLeastOne ==
    /\ call = ""
    /\ \E a \in Filters(doc) :
          /\ call' = "find_at_least_one"
          /\ arg' = a
          /\ ret' = find_at_least_one(doc, a.p, a.name, a.c, a.recursive)
    /\ UNCHANGED <<doc, readerVars>>

NextFind == CallFindAtMostOne \/ CallFindExactlyOne \/ CallFindAtLeastOne

SpecFind == InitFind /\ [][NextFind]_vars

-----------------------------------------------------------------------------
(* The container: a header of FirstChunk bytes that holds the 4-byte integer *)
(* L at HeaderOffset, then the chunks, each a 4-byte length sz and sz bytes: *)
(* a sub-header of SubHeader bytes and a zlib stream.  The stream is kept as *)
(* the lines it decompresses to, and whether it decompresses at all.         *)

HeaderOffset == 64
FirstChunk == 96
LenPrefix == 4
SubHeader == 8
ZlibMin == 8

MaxChunks == 2
MaxLines == 3

\* Markup in a title attribute or a fragment: get_text drops it.
MarkupTokens == {"<b>", "</b>"}

NoTitle == <<"<no d:title>">>

\* A line of a decompressed chunk: one the fragment pattern matches (entry),
\* with the value of its d:title attribute and its content, or another line.
EntryLine(title, body) == [entry |-> TRUE, title |-> title, body |-> body]
OtherLine == [entry |-> FALSE, title |-> NoTitle, body |-> <<>>]

LineShapes ==
    { EntryLine(<<"a">>, <<"<b>", "x", "</b>">>),
      EntryLine(<<"b">>, <<"y">>),
      EntryLine(<<>>, <<"x">>),
      EntryLine(<<"a">>, <<"<b>", "</b>">>),
      EntryLine(NoTitle, <<"x">>),
      OtherLine }

\* The length of the zlib stream of a text: never less than ZlibMin.
ZLen(lines) == ZlibMin + Len(lines)

Chunk(lines, valid) ==
    [sz |-> SubHeader + ZLen(lines), valid |-> valid, lines |-> lines]

\* The chunks of m lines: zlib streams, and for m = 0 also bytes that are none.
ChunkShapes(m) ==
    {Chunk(l, TRUE) : l \in [1..m -> LineShapes]}
        \cup (IF m = 0 THEN {Chunk(<<>>, FALSE)} ELSE {})

\* The chunk tables of at most k chunks and n lines in all.
RECURSIVE ChunkTables(_, _)
ChunkTables(k, n) ==
    IF k = 0 THEN {<<>>}
    ELSE {<<>>} \cup UNION {{<<c>> \o rest : c \in ChunkShapes(m),
                                             rest \in ChunkTables(k - 1, n - m)} :
                               m \in 0..n}

\* Where chunk i of a chunk table starts, and where the table ends.
RECURSIVE Start(_, _)
Start(chunks, i) ==
    IF i = 1 THEN FirstChunk
    ELSE Start(chunks, i - 1) + LenPrefix + chunks[i - 1].sz

End(chunks) == Start(chunks, Len(chunks) + 1)

\* The values of L tried for a chunk table: the one that puts the end of the
\* table at HeaderOffset + 4 + L, the ones that put HeaderOffset + L on or just
\* past a chunk boundary, and a negative one.
LValues(chunks) ==
    {-1} \cup {Start(chunks, i) - HeaderOffset + d : i \in 1..(Len(chunks) + 1), d \in {-4, 0, 1}}

\* The file: the integer at HeaderOffset and the chunk table.
Container(L, chunks) == [L |-> L, chunks |-> chunks]

-----------------------------------------------------------------------------
(* DictionaryDefinition.gen_from_apple_dictionary *)

\* BeautifulSoup(markup).get_text()
PlainText(markup) == SelectSeq(markup, LAMBDA t : t \notin MarkupTokens)

\* Limit, with the base offset forgotten.
LimitWithoutBase(L) == L

\* Limit, with the four bytes of L itself counted in.
LimitPastLengthField(L) == HeaderOffset + LenPrefix + L

\* limit, from the integer read at HeaderOffset
Limit(L) == HeaderOffset + L

\* The chunk whose length prefix is at position p, 0 if the file ends there.
ChunkAt(chunks, p) ==
    IF \E i \in 1..Len(chunks) : Start(chunks, i) = p
    THEN CHOOSE i \in 1..Len(chunks) : Start(chunks, i) = p
    ELSE 0

\* re.finditer(b"<d:entry[^\n]+", buf)
Matched(lines) == SelectSeq(lines, LAMBDA l : l.entry)

\* Invalid, with the test of the body forgotten.
InvalidTitleOnly(title, entry) == title = <<>>

\* The test that skips a fragment.
Invalid(title, entry) == title = <<>> \/ entry = <<>>

DictionaryDefinition(m) ==
    [title |-> PlainText(m.title), entry_str |-> PlainText(m.body), parsed_entry |-> m]

ParserIdle ==
    /\ doc = Soup(<<>>)
    /\ arg = <<>>
    /\ call = ""
    /\ ret = Pending

InitReader ==
    /\ ParserIdle
    /\ \E chunks \in ChunkTables(MaxChunks, MaxLines) :
          \E L \in LValues(chunks) : f = Container(L, chunks)
    /\ pos = 0
    /\ limit = 0
    /\ pc = "start"
    /\ buf = <<>>
    /\ out = <<>>
    /\ err = ""

\* f.seek(0x40); limit = 0x40 + unpack("i", f.read(4))[0]; f.seek(0x60)
ReadHeader ==
    /\ pc = "start"
    /\ limit' = Limit(f.L)
    /\ pos' = FirstChunk
    /\ pc' = "loop"
    /\ UNCHANGED <<f, buf, out, err, parserVars>>

\* One pass of the while loop up to the for loop: the length is read (a
\* struct.error at the end of the file), then the chunk, which is decompressed
\* (a zlib.error when it is no zlib stream).
ReadChunk ==
    /\ pc = "loop"
    /\ pos < limit
    /\ IF ChunkAt(f.chunks, pos) = 0
       THEN /\ pc' = "raised"
            /\ err' = "struct.error"
            /\ UNCHANGED <<pos, buf>>
       ELSE /\ pos' = pos + LenPrefix + f.chunks[ChunkAt(f.chunks, pos)].sz
            /\ IF f.chunks[ChunkAt(f.chunks, pos)].valid
               THEN /\ buf' = Matched(f.chunks[ChunkAt(f.chunks, pos)].lines)
                    /\ pc' = "match"
                    /\ err' = err
               ELSE /\ buf' = buf
                    /\ pc' = "raised"
                    /\ err' = "zlib.error"
    /\ UNCHANGED <<f, limit, out, parserVars>>

\* One pass of the for loop: the title search (None.group is an
\* AttributeError), the test that skips, the yield.
NextMatch ==
    /\ pc = "match"
    /\ buf # <<>>
    /\ IF Head(buf).title = NoTitle
       THEN /\ pc' = "raised"
            /\ err' = "AttributeError"
            /\ UNCHANGED <<buf, out>>
       ELSE /\ buf' = Tail(buf)
            /\ out' = IF Invalid(PlainText(Head(buf).title), PlainText(Head(buf).body))
                      THEN out
                      ELSE Append(out, DictionaryDefinition(Head(buf)))
            /\ UNCHANGED <<pc, err>>
    /\ UNCHANGED <<f, pos, limit, parserVars>>

\* The for loop ends.
EndChunk ==
    /\ pc = "match"
    /\ buf = <<>>
    /\ pc' = "loop"
    /\ UNCHANGED <<f, pos, limit, buf, out, err, parserVars>>

\* The while loop ends, and with it the sequence.
EndTable ==
    /\ pc = "loop"
    /\ pos >= limit
    /\ pc' = "done"
    /\ UNCHANGED <<f, pos, limit, buf, out, err, parserVars>>

NextReader == ReadHeader \/ ReadChunk \/ NextMatch \/ EndChunk \/ EndTable

SpecReader == InitReader /\ [][NextReader]_vars

-----------------------------------------------------------------------------
(* Properties of the container reader, checked under SpecReader *)

\* The fragments of a chunk table, in chunk order and in each chunk in line order.
Fragments(chunks) == Flatten([i \in 1..Len(chunks) |-> Matched(chunks[i].lines)])

\* A fragment that has a title attribute, a title text and a body text.
NonEmpty(m) ==
    m.title # NoTitle /\ PlainText(m.title) # <<>> /\ PlainText(m.body) # <<>>

\* A fragment that has a title attribute and no title text or no body text.
Degenerate(m) ==
    m.title # NoTitle /\ (PlainText(m.title) = <<>> \/ PlainText(m.body) = <<>>)

\* The container laid out as described: at least one chunk, the chunk table
\* ending at HeaderOffset + 4 + L, every chunk a zlib stream, every fragment
\* with a title and a body.
WellFormed(file) ==
    /\ Len(file.chunks) >= 1
    /\ End(file.chunks) = HeaderOffset + 4 + file.L
    /\ \A i \in 1..Len(file.chunks) : file.chunks[i].valid
    /\ \A i \in 1..Len(Fragments(file.chunks)) : NonEmpty(Fragments(file.chunks)[i])

\* The records are made of the fragments ms, one each, in order.
RecordsOf(records, ms) ==
    /\ Len(records) = Len(ms)
    /\ \A i \in 1..Len(ms) :
          /\ records[i].parsed_entry = ms[i]
          /\ records[i].title = PlainText(ms[i].title)
          /\ records[i].entry_str = PlainText(ms[i].body)

\* C1: for a well-formed container the reader never raises, what it has
\* yielded is at every moment the records of the first fragments of the
\* container in chunk order and fragment order, it can go on until the
\* sequence has ended, and when it has ended there is one record per fragment.
C1_OneRecordPerFragment ==
    WellFormed(f) =>
        /\ pc # "raised"
        /\ Len(out) <= Len(Fragments(f.chunks))
        /\ RecordsOf(out, SubSeq(Fragments(f.chunks), 1, Len(out)))
        /\ pc = "done" => Len(out) = Len(Fragments(f.chunks))
        /\ pc # "done" => ENABLED NextReader

\* C1: a two-chunk container with one fragment per chunk has been read to
\* its end and has given two records.
C1_Witness ==
    /\ WellFormed(f)
    /\ pc = "done"
    /\ Len(f.chunks) = 2
    /\ \A i \in 1..2 : Len(Matched(f.chunks[i].lines)) = 1
    /\ Len(out) = 2
    /\ out[1] # out[2]

\* C3 (as claimed): the reader that has stopped at a fragment without a title
\* attribute has stopped with InvalidParseAssumptionError.
C3_MissingTitleIsParseAssumption ==
    (pc = "raised" /\ buf # <<>> /\ Head(buf).title = NoTitle)
        => err = "InvalidParseAssumptionError"

\* The fragments the for loop has been through: those of the chunks read so
\* far, less the ones still in buf.
Chunked(chunks, p) == SelectSeq([i \in 1..Len(chunks) |-> i], LAMBDA i : Start(chunks, i) < p)

Visited ==
    SubSeq(Fragments([i \in 1..Len(Chunked(f.chunks, pos)) |-> f.chunks[i]]), 1,
           Len(Fragments([i \in 1..Len(Chunked(f.chunks, pos)) |-> f.chunks[i]])) - Len(buf))

\* C4: at every moment the records yielded are those of the fragments gone
\* through that have a title text and a body text, in order: a fragment with
\* an empty title text or body text gives no record and changes no other, and
\* the reader never stops at such a fragment.
C4_DegenerateFragmentSkipped ==
    /\ RecordsOf(out, SelectSeq(Visited, NonEmpty))
    /\ (pc = "raised" /\ buf # <<>>) => ~Degenerate(Head(buf))

\* C4: the sequence has ended, and a fragment without title text or body text
\* was followed by a record of the same chunk and by one of a later chunk.
C4_Witness ==
    /\ pc = "done"
    /\ Len(f.chunks) = 2
    /\ Len(Matched(f.chunks[1].lines)) = 2
    /\ Degenerate(Matched(f.chunks[1].lines)[1])
    /\ Len(Matched(f.chunks[2].lines)) = 1
    /\ Len(out) = 2
    /\ out[1].parsed_entry = Matched(f.chunks[1].lines)[2]
    /\ out[2].parsed_entry = Matched(f.chunks[2].lines)[1]

\* C8 (as claimed): when the loop has ended, the chunks read are those whose
\* length prefix starts before HeaderOffset + 4 + L.
C8_BoundWithLengthField ==
    pc = "done" =>
        \A i \in 1..Len(f.chunks) :
            Start(f.chunks, i) < pos <=> Start(f.chunks, i) < HeaderOffset + 4 + f.L

\* C8 (amended): the chunks read are at every moment among those whose length
\* prefix starts before HeaderOffset + L; the chunk at which the loop stands
\* is read if and only if it starts before HeaderOffset + L; when the loop
\* has ended, every chunk that starts before HeaderOffset + L has been read.
C8_LoopBound ==
    /\ \A i \in 1..Len(f.chunks) :
          Start(f.chunks, i) < pos => Start(f.chunks, i) < HeaderOffset + f.L
    /\ (pc = "loop" /\ ChunkAt(f.chunks, pos) # 0) =>
          (ENABLED ReadChunk <=> pos < HeaderOffset + f.L)
    /\ pc = "done" =>
          \A i \in 1..Len(f.chunks) :
              Start(f.chunks, i) < HeaderOffset + f.L => Start(f.chunks, i) < pos

\* C8: the loop has ended after reading a chunk and before a chunk that
\* starts at HeaderOffset + L itself.
C8_Witness ==
    /\ pc = "done"
    /\ Len(f.chunks) = 2
    /\ Start(f.chunks, 2) = HeaderOffset + f.L
    /\ pos = Start(f.chunks, 2)
    /\ out # <<>>

-----------------------------------------------------------------------------
(* Properties of the query helpers, checked under SpecFind *)

\* C5 (as claimed): a helper whose cardinality is violated has raised
\* InvalidParseAssumptionError, find_exactly_one has otherwise returned the
\* match and find_at_least_one all the matches in document order.
C5_CardinalityErrors ==
    call # "" =>
        /\ (call = "find_at_most_one"
              /\ Len(find_all(doc, arg.p, arg.name, arg.c, arg.recursive)) > 1)
              => ret = Raise("InvalidParseAssumptionError")
        /\ (call = "find_exactly_one"
              /\ Len(find_all(doc, arg.p, arg.name, arg.c, arg.recursive)) # 1)
              => ret = Raise("InvalidParseAssumptionError")
        /\ (call = "find_exactly_one"
              /\ Len(find_all(doc, arg.p, arg.name, arg.c, arg.recursive)) = 1)
              => ret = Ok(find_all(doc, arg.p, arg.name, arg.c, arg.recursive)[1])
        /\ (call = "find_at_least_one"
              /\ Len(find_all(doc, arg.p, arg.name, arg.c, arg.recursive)) = 0)
              => ret = Raise("InvalidParseAssumptionError")
        /\ (call = "find_at_least_one"
              /\ Len(find_all(doc, arg.p, arg.name, arg.c, arg.recursive)) > 0)
              => ret = Ok(find_all(doc, arg.p, arg.name, arg.c, arg.recursive))

-----------------------------------------------------------------------------
(* Properties of the parser, checked under SpecParser *)

\* The fragment root of the tree drawn, and its definition-group.
EntryNode == doc.kids[1]

HasClass(n, c) == n.kind = "tag" /\ n.hasClass /\ c \in n.cls

SgNode == EntryNode.kids[CHOOSE i \in 1..Len(EntryNode.kids) : HasClass(EntryNode.kids[i], "sg")]

Blank(n) == strip(TextOf(n), Whitespace) = <<>>

\* The spans of class c below node n, in document order.
RECURSIVE SpansIn(_, _)
SpansIn(n, c) ==
    IF n.kind = "text" THEN <<>>
    ELSE Flatten([i \in 1..Len(n.kids) |->
                    (IF n.kids[i].kind = "tag" /\ n.kids[i].name = "span"
                        /\ HasClass(n.kids[i], c)
                     THEN <<n.kids[i]>> ELSE <<>>)
                    \o SpansIn(n.kids[i], c)])

\* C2 (as claimed): an Entry returned by parse has at least one Sense, and
\* its definition-group has a direct child of class se1.
C2_SensesNeverEmpty ==
    (call = "parse" /\ ret.ok) =>
        /\ ret.val.senses # <<>>
        /\ \E i \in 1..Len(SgNode.kids) : HasClass(SgNode.kids[i], "se1")

\* The direct children of the fragment root besides the two groups.
Extras == SelectSeq(EntryNode.kids, LAMBDA n : ~HasClass(n, "hg") /\ ~HasClass(n, "sg"))

Recognised(n) ==
    HasClass(n, "t_phrases") \/ HasClass(n, "t_derivatives") \/ HasClass(n, "etym")

\* C6 (as claimed): parse of a fragment whose first child besides the
\* head-group and the definition-group is not of class t_phrases,
\* t_derivatives or etym has raised InvalidParseAssumptionError.
C6_UnrecognisedChildFails ==
    (call = "parse" /\ Extras # <<>> /\ ~Recognised(Extras[1]))
        => ret = Raise("InvalidParseAssumptionError")

\* The direct children of the definition-group that are not sense-groups.
Strays == SelectSeq(SgNode.kids, LAMBDA n : ~HasClass(n, "se1"))

\* C7 (as claimed): parse of a fragment that holds the two groups only, whose
\* sense-groups are sound, has raised InvalidParseAssumptionError if the
\* first direct child of the definition-group that is not a sense-group has
\* text, and has returned if all such children are blank and a sense-group
\* stands among the children.
C7_StrayChildOfDefinitionGroup ==
    (call = "parse" /\ Extras = <<>> /\ Strays # <<>>
        /\ \A i \in 1..Len(SgNode.kids) :
               HasClass(SgNode.kids[i], "se1") => SgNode.kids[i] = GoodSe1)
        => /\ ~Blank(Strays[1]) => ret = Raise("InvalidParseAssumptionError")
           /\ ((\A i \in 1..Len(Strays) : Blank(Strays[i]))
                  /\ Len(Strays) < Len(SgNode.kids)) => ret.ok

\* The children of class se2 of the sense-group parse_sense was called on.
SubSenseGroups == SelectSeq(At(doc, arg).kids, LAMBDA n : HasClass(n, "se2"))

\* C9 (as claimed): a Sense returned for a sense-group with sub-sense groups
\* holds Definitions and ReferenceDefinitions only, as many as there are
\* sense-entry spans in its sub-sense groups.
C9_DefinitionsFlattened ==
    (call = "parse_sense" /\ ret.ok /\ SubSenseGroups # <<>>) =>
        /\ \A i \in 1..Len(ret.val.definitions) :
              ret.val.definitions[i].class \in {"Definition", "ReferenceDefinition"}
        /\ Len(ret.val.definitions) =
              Len(Flatten([i \in 1..Len(SubSenseGroups) |->
                              SpansIn(SubSenseGroups[i], "msDict")]))

\* s without its last character if that is a colon.
OneTrailingColonRemoved(s) == IF s # <<>> /\ Last(s) = ":" THEN Front(s) ELSE s

\* r is s without its leading and trailing characters of chars.
IsStripped(r, s, chars) ==
    \E i \in 0..Len(s) : \E j \in i..Len(s) :
        /\ r = SubSeq(s, i + 1, j)
        /\ \A k \in 1..i : s[k] \in chars
        /\ \A k \in (j + 1)..Len(s) : s[k] \in chars
        /\ r # <<>> => (r[1] \notin chars /\ r[Len(r)] \notin chars)

Pieces(s) == {SubSeq(s, i + 1, j) : i \in 0..Len(s), j \in 0..Len(s)}

\* r is s trimmed, then without its leading and trailing colons, then
\* trimmed again.
IsExampleOf(r, s) ==
    \E t \in Pieces(s) : \E u \in Pieces(s) :
        /\ IsStripped(t, s, Whitespace)
        /\ IsStripped(u, t, {":"})
        /\ IsStripped(r, u, Whitespace)

\* The sense-entries parse_sense_definitions was called on.
SenseEntrySpans == SpansIn(At(doc, arg), "msDict")

\* C10 (as claimed): the Definition of a sense-entry with one definition-text
\* span has one example per example span, in document order, each the span's
\* trimmed text less one trailing colon.
C10_OneTrailingColon ==
    (call = "parse_sense_definitions" /\ ret.ok) =>
        \A i \in 1..Len(SenseEntrySpans) :
            Len(SpansIn(SenseEntrySpans[i], "df")) = 1 =>
                /\ ret.val[i].class = "Definition"
                /\ Len(ret.val[i].examples) = Len(SpansIn(SenseEntrySpans[i], "ex"))
                /\ \A j \in 1..Len(ret.val[i].examples) :
                      ret.val[i].examples[j] =
                          OneTrailingColonRemoved(
                              strip(TextOf(SpansIn(SenseEntrySpans[i], "ex")[j]), Whitespace))

\* C10 (amended): the Definition of a sense-entry with one definition-text
\* span has one example per example span, in document order, each the span's
\* text trimmed, then without all its leading and trailing colons, then
\* trimmed again.
C10_ColonsStripped ==
    (call = "parse_sense_definitions" /\ ret.ok) =>
        /\ Len(ret.val) = Len(SenseEntrySpans)
        /\ \A i \in 1..Len(SenseEntrySpans) :
              Len(SpansIn(SenseEntrySpans[i], "df")) = 1 =>
                  /\ ret.val[i].class = "Definition"
                  /\ Len(ret.val[i].examples) = Len(SpansIn(SenseEntrySpans[i], "ex"))
                  /\ \A j \in 1..Len(ret.val[i].examples) :
                        IsExampleOf(ret.val[i].examples[j],
                                    TextOf(SpansIn(SenseEntrySpans[i], "ex")[j]))

\* C10: a Definition was returned with two examples, the first from a span
\* whose text starts with a colon, the second from one whose text ends with
\* a colon.
C10_Witness ==
    /\ call = "parse_sense_definitions"
    /\ ret.ok
    /\ Len(SenseEntrySpans) = 1
    /\ Len(SpansIn(SenseEntrySpans[1], "df")) = 1
    /\ Len(SpansIn(SenseEntrySpans[1], "ex")) = 2
    /\ TextOf(SpansIn(SenseEntrySpans[1], "ex")[1]) = <<":", "b">>
    /\ TextOf(SpansIn(SenseEntrySpans[1], "ex")[2]) = <<"b", ":">>
    /\ ret.val[1].examples = << <<"b">>, <<"b">> >>

=============================================================================
